---- MODULE Spec2Model ----
(***************************************************************************)
(* Model of the stock price web service: the StockInfo object              *)
(* (app/services/stock_info.py), its memoized get_prices, the render       *)
(* operations, and the GET /stock/{symbol} handler (app/routers.py).       *)
(*                                                                         *)
(* Numbers: prices, dividends and splits are counted in thousandths, so    *)
(* that rounding to DECIMAL_PLACES is a computation on integers.           *)
(* Strings built by formatting are tuples of their fields.                 *)
(***************************************************************************)
EXTENDS Integers, Sequences, FiniteSets, TLC

\* ------------------------------------------------------------------ bounds
MaxRequests == 2     \* Spec: requests served in one run
MaxWorkers == 2      \* Spec: requests in progress at once
MaxObjects == 1      \* SpecInfo: StockInfo objects the application creates
MaxThreads == 1      \* SpecInfo: threads calling the objects
MaxExtra == 2        \* SpecLRU: windows asked for beyond the capacity of the cache
MaxAccept == 3       \* SpecAccept: longest Accept header, in tokens

\* --------------------------------------------------------------- constants
maxsize == 64
DECIMAL_PLACES == 2

Symbols == {"AAPL", "msft"}

\* str.upper() on the symbols of the model
upper(s) == CASE s = "msft" -> "MSFT" [] s = "aapl" -> "AAPL" [] OTHER -> s

Range(s) == {s[i] : i \in 1..Len(s)}

\* the last n elements of s (all of s when it is shorter)
LastN(s, n) == IF Len(s) <= n THEN s ELSE SubSeq(s, Len(s) - n + 1, Len(s))

\* ---------------------------------------------------------------- provider
\* One daily bar as the provider reports it: index Date and the columns of
\* the DataFrame.
Bar(y, m, d, o, h, l, c, v, div, split) ==
    [Date |-> [year |-> y, month |-> m, day |-> d],
     Open |-> o, High |-> h, Low |-> l, Close |-> c, Volume |-> v,
     Dividends |-> div, StockSplits |-> split]

\* The daily history the provider holds for a symbol, oldest day first.
ProviderHistory(sym) ==
    IF upper(sym) = "AAPL"
    THEN << Bar(2025, 12, 30, 151223, 151996, 150004, 150000, 900, 0, 0),
            Bar(2025, 12, 31, 150000, 150015, 149795, 149800, 800, 250, 0),
            Bar(2026, 1, 2, 149800, 152105, 149800, 152100, 700, 0, 4000),
            Bar(2026, 1, 5, 152100, 153455, 152100, 153445, 600, 125, 2000) >>
    ELSE << Bar(2026, 1, 2, 410005, 410995, 409000, 410000, 50, -1, 0),
            Bar(2026, 1, 5, 410000, 412346, 410000, 412344, 60, 0, 0) >>

\* Ticker.history(period="<howmany>d") when the query answers with data:
\* the most recent howmany daily bars.
history(sym, howmany) == LastN(ProviderHistory(sym), howmany)

\* What one history query can do: answer with bars, answer with an empty
\* table, or raise.
ProviderOutcomes == {"rows", "empty", "raise"}

\* --------------------------------------------------------------- StockInfo
\* Pandas round(DECIMAL_PLACES) on a price in thousandths: to the nearest
\* hundredth, a tie going to the even hundredth.
Scale == IF DECIMAL_PLACES = 2 THEN 10 ELSE 1

round(x) ==
    LET q == x \div Scale
        r == x % Scale
    IN IF 2 * r < Scale THEN q * Scale
       ELSE IF 2 * r > Scale THEN (q + 1) * Scale
       ELSE IF q % 2 = 0 THEN q * Scale ELSE (q + 1) * Scale

\* get_prices lines 80-82: the four price columns rounded, the others kept.
RoundPrices(table) ==
    IF DECIMAL_PLACES > 0
    THEN [i \in 1..Len(table) |->
            [table[i] EXCEPT !.Open = round(@), !.High = round(@),
                             !.Low = round(@), !.Close = round(@)]]
    ELSE table

\* DataFrame.empty
empty(table) == Len(table) = 0

\* date.strftime('%Y-%m-%d'): the year, month and day fields in that order.
strftime(date) == <<date.year, date.month, date.day>>

\* Python truth of a number
Truthy(x) == x # 0

\* One iteration of the loop of as_list: the record of one row.
PriceData(row) ==
    LET base == [date |-> strftime(row.Date), open |-> row.Open,
                 high |-> row.High, low |-> row.Low, close |-> row.Close,
                 volume |-> row.Volume]
        withDiv == IF "Dividends" \in DOMAIN row /\ Truthy(row.Dividends)
                      /\ row.Dividends > 0
                   THEN base @@ ("dividends" :> row.Dividends) ELSE base
    IN IF "StockSplits" \in DOMAIN row /\ Truthy(row.StockSplits)
          /\ row.StockSplits > 0
       THEN withDiv @@ ("stock_splits" :> row.StockSplits) ELSE withDiv

\* The result of a call: a value, or the exception raised.
Ok(v) == [exc |-> "none", value |-> v]
Raise(e) == [exc |-> e, value |-> <<>>]

\* except ValueError catches it: the exception is a ValueError.
IsValueError(e) == e = "ValueError"

\* StockInfo.as_list on an object whose prices attribute is table
as_list(table) ==
    IF empty(table) THEN Raise("ValueError")
    ELSE Ok([i \in 1..Len(table) |-> PriceData(table[i])])

\* as_dataframe without the check of lines 178-179
as_dataframe_unchecked(table) == Ok(table)

\* StockInfo.as_dataframe
as_dataframe(table) ==
    IF empty(table) THEN Raise("ValueError") ELSE Ok(table)

\* --------------------------------------------------------- JSON rendering
None == <<>>
Some(x) == <<x>>

\* The keys of a price record in the order as_list inserts them.
KeyOrder == <<"date", "open", "high", "low", "close", "volume",
              "dividends", "stock_splits">>

\* json.dumps of one dict: its members, key and value, in insertion order.
dumps_dict(d) ==
    LET keys == SelectSeq(KeyOrder, LAMBDA k : k \in DOMAIN d)
    IN [i \in 1..Len(keys) |-> <<keys[i], d[keys[i]]>>]

\* json.loads of one object: the dict of its members.
loads_dict(members) ==
    [k \in {members[i][1] : i \in 1..Len(members)} |->
        members[CHOOSE i \in 1..Len(members) : members[i][1] = k][2]]

\* json.dumps(response) of as_json: the document with its members in order.
json_dumps(response) ==
    [symbol |-> response.symbol, retrieved_at |-> response.retrieved_at,
     prices |-> [i \in 1..Len(response.prices) |-> dumps_dict(response.prices[i])]]

\* json.loads of that document
json_loads(doc) ==
    [symbol |-> doc.symbol, retrieved_at |-> doc.retrieved_at,
     prices |-> [i \in 1..Len(doc.prices) |-> loads_dict(doc.prices[i])]]

\* StockInfo.as_json() at time now (include_metadata is left at its default)
as_json(sym, table, now) ==
    LET price_list == as_list(table)
    IN IF price_list.exc # "none" THEN Raise(price_list.exc)
       ELSE Ok(json_dumps([symbol |-> upper(sym), retrieved_at |-> now,
                           prices |-> price_list.value]))

\* schemas.StockPrice built from one dict: the required fields, and the
\* Optional fields with their default None when the key is missing.
StockPrice(d) ==
    [date |-> d.date, open |-> d.open, high |-> d.high, low |-> d.low,
     close |-> d.close, volume |-> d.volume,
     dividends |-> IF "dividends" \in DOMAIN d THEN Some(d.dividends) ELSE None,
     stock_splits |-> IF "stock_splits" \in DOMAIN d
                      THEN Some(d.stock_splits) ELSE None]

\* StockInfoSchema.model_validate(data)
model_validate(data) ==
    [symbol |-> data.symbol, retrieved_at |-> data.retrieved_at,
     prices |-> [i \in 1..Len(data.prices) |-> StockPrice(data.prices[i])],
     metadata |-> IF "metadata" \in DOMAIN data THEN Some(data.metadata) ELSE None]

\* The route decorator (routers.py 24-30) sets response_model and leaves
\* response_model_exclude_none at the framework's default.
response_model_exclude_none == FALSE

\* One StockPrice of the returned schema as a JSON object of the body: a
\* key for every field of the model, a None field with the value null
\* (None here), unless None fields are excluded.
body_price(p, exclude_none) ==
    LET all == [date |-> p.date, open |-> p.open, high |-> p.high,
                low |-> p.low, close |-> p.close, volume |-> p.volume]
        d == IF exclude_none /\ p.dividends = None THEN all
             ELSE all @@ ("dividends" :> p.dividends)
    IN IF exclude_none /\ p.stock_splits = None THEN d
       ELSE d @@ ("stock_splits" :> p.stock_splits)

\* The JSON body of a 200 response for a returned schema object.
response_body(schema) ==
    [symbol |-> schema.symbol, retrieved_at |-> schema.retrieved_at,
     prices |-> [i \in 1..Len(schema.prices) |->
                    body_price(schema.prices[i], response_model_exclude_none)],
     metadata |-> schema.metadata]

\* routers.as_protobuf: the StockPrices message; an optional field is set
\* only when the key is in the record.
as_protobuf(sym, price_list, now) ==
    [symbol |-> upper(sym), retrieved_at |-> now,
     prices |-> [i \in 1..Len(price_list) |->
        LET p == price_list[i]
        IN [date |-> p.date, open |-> p.open, high |-> p.high, low |-> p.low,
            close |-> p.close, volume |-> p.volume,
            dividends |-> IF "dividends" \in DOMAIN p
                          THEN Some(p.dividends) ELSE None,
            stock_splits |-> IF "stock_splits" \in DOMAIN p
                             THEN Some(p.stock_splits) ELSE None]]]

\* ------------------------------------------------------ content negotiation
\* An Accept header is a sequence of tokens; the empty sequence is the
\* missing header (request.headers.get("accept") or "").
AcceptTokens == {"application/", "APPLICATION/", "x-", "vnd.google.",
                 "protobuf", "Protobuf", "json", ","}

lower_token(tok) ==
    CASE tok = "APPLICATION/" -> "application/"
      [] tok = "Protobuf" -> "protobuf"
      [] OTHER -> tok

\* str.lower()
lower(accept) == [i \in 1..Len(accept) |-> lower_token(accept[i])]

\* t in accept, for strings
Contains(accept, t) ==
    \E i \in 0..(Len(accept) - Len(t)) :
        \A j \in 1..Len(t) : accept[i + j] = t[j]

protobuf_types == { <<"application/", "protobuf">>,
                    <<"application/", "x-", "protobuf">> }

\* the negotiation without the .lower() of line 41
wants_protobuf_cased(hdr) == \E t \in protobuf_types : Contains(hdr, t)

wants_protobuf(hdr) ==
    LET accept == lower(hdr)
    IN \E t \in protobuf_types : Contains(accept, t)

\* ------------------------------------------------------------------- state
VARIABLES
    stock_pb2,   \* whether app.protos.stock_pb2 can be imported in this deployment
    symbol,      \* symbol[o]: the symbol attribute of StockInfo object o
    prices,      \* prices[o]: the prices attribute (a table) of object o
    shared,      \* the objects the application holds and calls directly
    cache,       \* the keys of get_prices' lru_cache, least recently used first
    fetched,     \* the keys for which a get_prices call has returned self
    header,      \* the Accept header the client of SpecAccept sends
    th,          \* th[t]: the call thread t is in, and where in get_prices it is
    resp         \* the call that ended last, and what it gave

vars == <<stock_pb2, header, symbol, prices, shared, cache, fetched, th, resp>>

\* The key lru_cache makes of the arguments (self, howmany): StockInfo
\* defines neither __eq__ nor __hash__, so self counts by identity.
Key(o, howmany) == [self |-> o, howmany |-> howmany]

Idle == [pc |-> "idle", op |-> "none", self |-> 0, howmany |-> 0,
         binary |-> FALSE, queries |-> 0, provider |-> "none"]

NoResp == [op |-> "none", self |-> 0, howmany |-> 0, binary |-> FALSE,
           queries |-> 0, provider |-> "none", hit |-> FALSE,
           exc |-> "none", status |-> 0, value |-> <<>>]

\* The state of a started process with the threads T: no object, an empty cache.
InitWith(T, pb2, headers) ==
    /\ stock_pb2 \in pb2
    /\ header \in headers
    /\ symbol = <<>>
    /\ prices = <<>>
    /\ shared = {}
    /\ cache = <<>>
    /\ fetched = {}
    /\ th = [t \in T |-> Idle]
    /\ resp = NoResp

\* ------------------------------------------------------------- lru_cache
\* a hit that leaves the order alone (first in, first out)
CacheHit_fifo(c, key) == c

\* A hit moves the key to the most recently used end.
CacheHit(c, key) == Append(SelectSeq(c, LAMBDA k : k # key), key)

\* Storing the result of a miss: nothing when the key was stored meanwhile,
\* else the least recently used key leaves a full cache and the key is added.
CacheStore(c, key) ==
    IF key \in Range(c) THEN c
    ELSE IF Len(c) >= maxsize THEN Append(Tail(c), key)
    ELSE Append(c, key)

\* ------------------------------------------------------------ the handler
\* the two except clauses with their statuses exchanged
StatusOf_swapped(e) == IF IsValueError(e) THEN 500 ELSE 404

\* routers.py 70-73 and 82-85: the status of an exception
StatusOf(e) == IF IsValueError(e) THEN 404 ELSE 500

\* The call of thread record r, ended
Ended(r) == [op |-> r.op, self |-> r.self, howmany |-> r.howmany,
             binary |-> r.binary, queries |-> r.queries,
             provider |-> r.provider, hit |-> FALSE,
             exc |-> "none", status |-> 0, value |-> <<>>]

\* routers.py 63-68 and 78-81: the response once get_prices has returned,
\* for the request of thread record r, the object's symbol and table.
Respond(r, sym, table, now) ==
    IF r.binary
    THEN LET price_list == as_list(table)
         IN IF price_list.exc # "none"
            THEN [Ended(r) EXCEPT !.exc = price_list.exc,
                                  !.status = StatusOf(price_list.exc)]
            ELSE [Ended(r) EXCEPT !.status = 200,
                                  !.value = as_protobuf(sym, price_list.value, now)]
    ELSE LET js == as_json(sym, table, now)
         IN IF js.exc # "none"
            THEN [Ended(r) EXCEPT !.exc = js.exc, !.status = StatusOf(js.exc)]
            ELSE [Ended(r) EXCEPT !.status = 200,
                     !.value = response_body(model_validate(json_loads(js.value)))]

\* An exception e leaves get_prices (or StockInfo()) in thread record r: it
\* is what a direct call gives, and the handler maps it to a status.
Raised(r, e) ==
    IF r.op = "get_stock_prices"
    THEN [Ended(r) EXCEPT !.exc = e, !.status = StatusOf(e)]
    ELSE [Ended(r) EXCEPT !.exc = e]

\* get_prices has returned self in thread record r
Returned(r, sym, table, now) ==
    IF r.op = "get_stock_prices" THEN Respond(r, sym, table, now)
    ELSE Ended(r)

\* ------------------------------------------------------------------ actions
\* StockInfo(symbol) by the application: a new object with an empty table.
StockInfo_init(sym) ==
    /\ symbol' = Append(symbol, sym)
    /\ prices' = Append(prices, <<>>)
    /\ shared' = shared \cup {Len(symbol) + 1}
    /\ UNCHANGED <<stock_pb2, header, cache, fetched, th, resp>>

\* Thread t calls o.get_prices(howmany): the wrapper of lru_cache looks the
\* key up; a hit returns the cached self without running the method.
get_prices(t, o, howmany, now) ==
    /\ th[t].pc = "idle"
    /\ LET key == Key(o, howmany)
           r == [Idle EXCEPT !.op = "get_prices", !.self = o, !.howmany = howmany]
       IN IF key \in Range(cache)
          THEN /\ cache' = CacheHit(cache, key)
               /\ th' = th
               /\ resp' = [Returned(r, symbol[o], prices[o], now) EXCEPT !.hit = TRUE]
          ELSE /\ cache' = cache
               /\ th' = [th EXCEPT ![t] = [r EXCEPT !.pc = "history"]]
               /\ resp' = resp
    /\ UNCHANGED <<stock_pb2, header, symbol, prices, shared, fetched>>

\* get_prices with the table cleared before the provider is queried, so that
\* a raising query leaves the empty table behind
ticker_history_clears(t, outcome) ==
    /\ th[t].pc = "history"
    /\ LET o == th[t].self
           r == [th[t] EXCEPT !.queries = @ + 1, !.provider = outcome]
       IN CASE outcome \in {"raise", "empty"} ->
                 /\ prices' = [prices EXCEPT ![o] = <<>>]
                 /\ th' = [th EXCEPT ![t] = Idle]
                 /\ resp' = Raised(r, "Exception")
            [] OTHER ->
                 /\ prices' = [prices EXCEPT ![o] =
                                 RoundPrices(history(symbol[o], th[t].howmany))]
                 /\ th' = [th EXCEPT ![t] = [r EXCEPT !.pc = "store"]]
                 /\ resp' = resp
    /\ UNCHANGED <<stock_pb2, header, symbol, shared, cache, fetched>>

\* The body of get_prices up to its return or raise (lines 67-85): the
\* provider is queried and answers with outcome.
ticker_history(t, outcome) ==
    /\ th[t].pc = "history"
    /\ LET o == th[t].self
           r == [th[t] EXCEPT !.queries = @ + 1, !.provider = outcome]
       IN CASE outcome = "raise" ->
                 /\ prices' = prices
                 /\ th' = [th EXCEPT ![t] = Idle]
                 /\ resp' = Raised(r, "Exception")
            [] outcome = "empty" ->
                 /\ prices' = [prices EXCEPT ![o] = <<>>]
                 /\ th' = [th EXCEPT ![t] = Idle]
                 /\ resp' = Raised(r, "Exception")
            [] OTHER ->
                 /\ prices' = [prices EXCEPT ![o] =
                                 RoundPrices(history(symbol[o], th[t].howmany))]
                 /\ th' = [th EXCEPT ![t] = [r EXCEPT !.pc = "store"]]
                 /\ resp' = resp
    /\ UNCHANGED <<stock_pb2, header, symbol, shared, cache, fetched>>

\* get_prices returns self: the wrapper stores the result and returns it.
get_prices_return(t, now) ==
    /\ th[t].pc = "store"
    /\ LET o == th[t].self
           key == Key(o, th[t].howmany)
       IN /\ cache' = CacheStore(cache, key)
          /\ fetched' = fetched \cup {key}
          /\ th' = [th EXCEPT ![t] = Idle]
          /\ resp' = Returned(th[t], symbol[o], prices[o], now)
    /\ UNCHANGED <<stock_pb2, header, symbol, prices, shared>>

\* What constructing the provider's Ticker in StockInfo.__init__ can do:
\* succeed, raise ValueError (re-raised as it is, line 52) or raise another
\* exception (wrapped in Exception, line 54).
TickerOutcomes == {"ok", "ValueError", "Exception"}

\* the import tried for every request, whatever format it asks for
ImportFails_always(wants, pb2) == ~pb2

\* routers.py 49-52: the import of stock_pb2 is tried, and fails
ImportFails(wants, pb2) == wants /\ ~pb2

\* GET /stock/{symbol}?limit=N with the Accept header accept, in thread t:
\* negotiation, the import of stock_pb2, StockInfo(symbol), and the call of
\* get_prices up to the lookup of lru_cache.
get_stock_prices(t, sym, accept, limit, ticker, now) ==
    /\ th[t].pc = "idle"
    /\ LET wants == wants_protobuf(accept)
           o == Len(symbol) + 1
           key == Key(o, limit)
           r == [Idle EXCEPT !.op = "get_stock_prices", !.howmany = limit,
                             !.binary = wants]
       IN IF ImportFails(wants, stock_pb2)
          THEN /\ resp' = [Ended(r) EXCEPT !.exc = "HTTPException", !.status = 501]
               /\ UNCHANGED <<symbol, prices, cache, th>>
          ELSE IF ticker # "ok"
          THEN /\ resp' = Raised(r, ticker)
               /\ UNCHANGED <<symbol, prices, cache, th>>
          ELSE /\ symbol' = Append(symbol, sym)
               /\ prices' = Append(prices, <<>>)
               /\ IF key \in Range(cache)
                  THEN /\ cache' = CacheHit(cache, key)
                       /\ th' = th
                       /\ resp' = [Returned([r EXCEPT !.self = o], sym, <<>>, now)
                                     EXCEPT !.hit = TRUE]
                  ELSE /\ cache' = cache
                       /\ th' = [th EXCEPT ![t] = [r EXCEPT !.self = o,
                                                            !.pc = "history"]]
                       /\ resp' = resp
    /\ UNCHANGED <<stock_pb2, header, shared, fetched>>

\* The render operations of StockInfo
RenderOps == {"as_list", "as_json", "as_dataframe"}

\* Thread t calls a render operation on object o.
render(t, o, op, now) ==
    /\ th[t].pc = "idle"
    /\ LET res == CASE op = "as_list" -> as_list(prices[o])
                    [] op = "as_json" ->
                         as_json(symbol[o], prices[o], now)
                    [] OTHER -> as_dataframe(prices[o])
       IN resp' = [NoResp EXCEPT !.op = op, !.self = o, !.exc = res.exc,
                                 !.value = res.value]
    /\ UNCHANGED <<stock_pb2, header, symbol, prices, shared, cache, fetched, th>>

\* ----------------------------------------------------------- specifications
\* The clock readings of datetime.now()
Times == {"2026-01-06T10:00:00"}

\* The window sizes callers pass: one day, and more days than the provider
\* holds for one of the symbols.
Windows == {1, 3}

\* Accept headers of the requests of Spec
AcceptSamples == { <<>>,
                   <<"application/", "json">>,
                   <<"application/", "protobuf">>,
                   <<"APPLICATION/", "x-", "protobuf">>,
                   <<"application/", "vnd.google.", "protobuf">> }

\* The web service: requests in MaxWorkers worker threads.
Workers == 1..MaxWorkers

Init == InitWith(Workers, BOOLEAN, {<<>>})

Next ==
    \/ \E t \in Workers, sym \in Symbols, accept \in AcceptSamples,
          limit \in Windows, ticker \in TickerOutcomes, now \in Times :
          /\ Len(symbol) < MaxRequests
          /\ get_stock_prices(t, sym, accept, limit, ticker, now)
    \/ \E t \in Workers, outcome \in ProviderOutcomes : ticker_history(t, outcome)
    \/ \E t \in Workers, now \in Times : get_prices_return(t, now)

Spec == Init /\ [][Next]_vars

\* An application using StockInfo objects directly from MaxThreads threads.
Threads == 1..MaxThreads

InitInfo == InitWith(Threads, {FALSE}, {<<>>})

NextInfo ==
    \/ \E sym \in Symbols : Len(symbol) < MaxObjects /\ StockInfo_init(sym)
    \/ \E t \in Threads, o \in shared, howmany \in Windows, now \in Times :
          get_prices(t, o, howmany, now)
    \/ \E t \in Threads, outcome \in ProviderOutcomes : ticker_history(t, outcome)
    \/ \E t \in Threads, now \in Times : get_prices_return(t, now)
    \/ \E t \in Threads, o \in shared, op \in RenderOps, now \in Times :
          render(t, o, op, now)

SpecInfo == InitInfo /\ [][NextInfo]_vars

\* One StockInfo object and two threads: thread "scan" asks for growing
\* windows (1, 2, 3, ... up to maxsize + MaxExtra) and, at any time, for
\* window 1 again; thread "again" asks for window 1.
Clients == {"scan", "again"}

InitLRU == InitWith(Clients, {FALSE}, {<<>>})

\* the next window of the scan: windows 1 .. ScanNext - 1 have been fetched
ScanNext == Cardinality(fetched) + 1

NextLRU ==
    \/ \E sym \in Symbols : Len(symbol) < 1 /\ StockInfo_init(sym)
    \/ \E t \in Clients, o \in shared, howmany \in {1, ScanNext}, now \in Times :
          /\ howmany <= maxsize + MaxExtra
          /\ t = "again" => howmany = 1
          /\ get_prices(t, o, howmany, now)
    \/ \E t \in Clients, outcome \in ProviderOutcomes : ticker_history(t, outcome)
    \/ \E t \in Clients, now \in Times : get_prices_return(t, now)

SpecLRU == InitLRU /\ [][NextLRU]_vars

\* Content negotiation: one request with an Accept header of at most
\* MaxAccept tokens, drawn when the run starts.
Headers == UNION {[1..n -> AcceptTokens] : n \in 0..MaxAccept}

InitAccept == InitWith({1}, BOOLEAN, Headers)

NextAccept ==
    \/ \E sym \in Symbols, limit \in Windows, ticker \in TickerOutcomes,
          now \in Times :
          /\ Len(symbol) < 1
          /\ resp.op = "none"
          /\ get_stock_prices(1, sym, header, limit, ticker, now)
    \/ \E outcome \in ProviderOutcomes : ticker_history(1, outcome)
    \/ \E now \in Times : get_prices_return(1, now)

SpecAccept == InitAccept /\ [][NextAccept]_vars

\* ------------------------------------------------------------------- claims
IsRequest(r) == r.op = "get_stock_prices"
AllIdle == \A t \in DOMAIN th : th[t].pc = "idle"

\* C1: when the provider answers a request's query with an empty result,
\* the response has status 404, in JSON and in binary mode.
C1_EmptyResultGives404 ==
    (IsRequest(resp) /\ resp.provider = "empty") => resp.status = 404

\* C2: a request is answered 501 exactly when negotiation chose the binary
\* format and stock_pb2 cannot be imported; the 501 response is made with no
\* provider query and no request of that kind gets as far as the provider;
\* a request negotiated as JSON is never answered 501.
C2_Status501 ==
    /\ IsRequest(resp) =>
         /\ (resp.status = 501) <=> (resp.binary /\ ~stock_pb2)
         /\ resp.status = 501 => (resp.queries = 0 /\ resp.provider = "none")
         /\ ~resp.binary => resp.status # 501
    /\ \A t \in DOMAIN th :
         (th[t].pc # "idle" /\ IsRequest(th[t])) => ~(th[t].binary /\ ~stock_pb2)

C2_Witness ==
    IsRequest(resp) /\ resp.status = 501 /\ resp.binary /\ ~stock_pb2
    /\ resp.queries = 0

\* hdr holds t as a substring: a prefix, then t, then a suffix
HasSubstring(hdr, t) ==
    \E i \in 1..Len(hdr) :
        i + Len(t) - 1 <= Len(hdr) /\ SubSeq(hdr, i, i + Len(t) - 1) = t

\* C3 as stated: the binary format is chosen exactly when the lower-cased
\* Accept header holds application/protobuf, application/x-protobuf or
\* application/vnd.google.protobuf; JSON for every other header.
C3_ThreeTypes ==
    IsRequest(resp) =>
        (resp.binary <=>
            \/ HasSubstring(lower(header), <<"application/", "protobuf">>)
            \/ HasSubstring(lower(header), <<"application/", "x-", "protobuf">>)
            \/ HasSubstring(lower(header),
                            <<"application/", "vnd.google.", "protobuf">>))

\* C3 amended: the binary format is chosen exactly when the lower-cased
\* Accept header holds application/protobuf or application/x-protobuf; JSON
\* for every other header, the missing one and
\* application/vnd.google.protobuf among them.
C3_TwoTypes ==
    IsRequest(resp) =>
        (resp.binary <=>
            \/ HasSubstring(lower(header), <<"application/", "protobuf">>)
            \/ HasSubstring(lower(header), <<"application/", "x-", "protobuf">>))

C3_Witness ==
    /\ IsRequest(resp) /\ resp.binary
    /\ header = <<"APPLICATION/", "x-", "Protobuf">>

\* C4: a fetch that starts after a fetch of the same symbol and window has
\* returned, with no more keys fetched than the cache holds, is a cache hit:
\* it does not go on to query the provider, whether the two calls are made
\* on one StockInfo object or on two objects of the same symbol.
C4_SecondFetchHits ==
    [][\A t \in DOMAIN th :
         (th[t].pc = "idle" /\ th'[t].pc = "history"
          /\ Cardinality(fetched) <= maxsize)
         => ~\E k \in fetched :
                /\ upper(symbol[k.self]) = upper(symbol'[th'[t].self])
                /\ k.howmany = th'[t].howmany]_vars

\* the key a thread at "store" is about to store, a store of a new key, and
\* a step that is a cache hit
C5_StoredKey(t) == Key(th[t].self, th[t].howmany)

C5_Stores(t) ==
    /\ th[t].pc = "store" /\ th'[t].pc = "idle"
    /\ C5_StoredKey(t) \notin Range(cache)

C5_Hits ==
    /\ th' = th /\ resp'.op = "get_prices" /\ resp'.hit
    /\ <<cache, resp>>' # <<cache, resp>>

\* the keys of c other than key, in their order
C5_Others(c, key) ==
    LET at == CHOOSE i \in 1..Len(c) : c[i] = key
    IN SubSeq(c, 1, at - 1) \o SubSeq(c, at + 1, Len(c))

\* C5: the cache never holds more than 64 keys; a new key stored in a cache
\* of 64 keys evicts the least recently used key (the head) and keeps every
\* other key in its order; a hit makes its key the most recently used and
\* keeps the others in their order; no other step changes the cache.
C5_CacheLRU ==
    [][/\ Len(cache') <= 64
       /\ Cardinality(Range(cache')) = Len(cache')
       /\ \A t \in DOMAIN th :
            C5_Stores(t) =>
               IF Len(cache) = 64
               THEN cache' = Append(Tail(cache), C5_StoredKey(t))
               ELSE cache' = Append(cache, C5_StoredKey(t))
       /\ C5_Hits =>
            LET key == Key(resp'.self, resp'.howmany)
            IN /\ key \in Range(cache)
               /\ cache' = Append(C5_Others(cache, key), key)
       /\ cache' # cache => (C5_Hits \/ \E t \in DOMAIN th : C5_Stores(t))]_vars

\* the cache is full, window 1 (stored first, hit since) is still in it, and
\* window 2 has been evicted in its place
C5_Witness ==
    /\ Len(cache) = 64
    /\ Key(1, 1) \in Range(cache)
    /\ Key(1, 2) \in fetched /\ Key(1, 2) \notin Range(cache)
    /\ Key(1, 65) \in Range(cache)

\* no get_prices call has returned on object o and none is running on it
NeverFetched(o) ==
    /\ ~\E k \in fetched : k.self = o
    /\ ~\E t \in DOMAIN th : th[t].pc # "idle" /\ th[t].self = o

\* C6: on an object on which no get_prices has returned (and none is
\* running), as_list, as_json and as_dataframe raise the no-data ValueError
\* and give no data, whatever get_prices calls have failed on it before.
C6_RenderBeforeFetch ==
    /\ \A o \in shared : \A now \in Times :
         NeverFetched(o) =>
            /\ as_list(prices[o]) = Raise("ValueError")
            /\ as_json(symbol[o], prices[o], now) = Raise("ValueError")
            /\ as_dataframe(prices[o]) = Raise("ValueError")
    /\ (resp.op \in RenderOps /\ NeverFetched(resp.self)) =>
         (resp.exc = "ValueError" /\ resp.value = <<>>)

\* a get_prices call has just failed on an empty result, on an object on
\* which none has returned, and the render operations raise
C6_Witness ==
    /\ resp.op = "get_prices" /\ resp.provider = "empty"
    /\ resp.exc = "Exception" /\ NeverFetched(resp.self)
    /\ as_list(prices[resp.self]) = Raise("ValueError")
    /\ as_dataframe(prices[resp.self]) = Raise("ValueError")

\* the rule of one optional key of one entry: there exactly when the raw
\* value is > 0, and then with that value (plain, or an Optional that is set)
C7_KeyRule(entry, key, raw, plain) ==
    /\ (key \in DOMAIN entry) <=> (raw > 0)
    /\ key \in DOMAIN entry =>
         IF plain THEN entry[key] = raw
         ELSE (entry[key] # None /\ entry[key][1] = raw)

C7_EntryRule(entry, bar, plain) ==
    /\ C7_KeyRule(entry, "dividends", bar.Dividends, plain)
    /\ C7_KeyRule(entry, "stock_splits", bar.StockSplits, plain)

\* C7: in every record of as_list, in every prices entry of as_json and in
\* every prices entry of the JSON body of a 200 response, the dividends key
\* is there with a value > 0 exactly when the provider's dividend of that
\* day is > 0, and is left out otherwise (never null, never 0); the same for
\* stock_splits.
C7_OptionalKeysOmitted ==
    /\ \A o \in 1..Len(prices) : \A now \in Times :
         ~empty(prices[o]) =>
            \A i \in 1..Len(prices[o]) :
               /\ C7_EntryRule(as_list(prices[o]).value[i], prices[o][i], TRUE)
               /\ C7_EntryRule(
                     loads_dict(as_json(symbol[o], prices[o], now).value.prices[i]),
                     prices[o][i], TRUE)
    /\ (IsRequest(resp) /\ resp.status = 200 /\ ~resp.binary) =>
         LET bars == history(symbol[resp.self], resp.howmany)
         IN /\ Len(resp.value.prices) = Len(bars)
            /\ \A i \in 1..Len(bars) :
                 C7_EntryRule(resp.value.prices[i], bars[i], FALSE)

\* C8: when the provider's history query raises during a request, the
\* response has status 500 in both formats and the request has made exactly
\* one history query.
C8_ProviderRaiseGives500 ==
    (IsRequest(resp) /\ resp.provider = "raise") =>
        (resp.status = 500 /\ resp.queries = 1)

C8_Witness ==
    /\ IsRequest(resp) /\ resp.provider = "raise" /\ resp.binary
    /\ resp.status = 500 /\ resp.queries = 1

\* a date string is before another: the order of the strings YYYY-MM-DD
DateBefore(a, b) ==
    \/ a[1] < b[1]
    \/ a[1] = b[1] /\ a[2] < b[2]
    \/ a[1] = b[1] /\ a[2] = b[2] /\ a[3] < b[3]

\* C9: when get_prices(n) has just returned on an object, as_list gives at
\* most n records, their dates ascending and distinct.
C9_AtMostNRecords ==
    (AllIdle /\ resp.op = "get_prices" /\ resp.exc = "none") =>
        LET l == as_list(prices[resp.self])
        IN l.exc = "none" =>
             /\ Len(l.value) <= resp.howmany
             /\ \A i, j \in 1..Len(l.value) :
                  i < j => DateBefore(l.value[i].date, l.value[j].date)

\* C10: when get_prices(n) has just returned on an object, the object's
\* table is the (rounded) table of the provider for window n, also when the
\* call was served from the cache after a get_prices(m), m # n, on the object.
C10_TableOfWindow ==
    (AllIdle /\ resp.op = "get_prices" /\ resp.exc = "none") =>
        prices[resp.self] =
            RoundPrices(history(symbol[resp.self], resp.howmany))

\* the step in which the get_prices call of thread t fails
C11_Fails(t) == th[t].pc = "history" /\ th'[t].pc = "idle"

\* the last call that ended is a failed get_prices
C11_Failed == resp.op = "get_prices" /\ resp.exc = "Exception"

\* C11: a get_prices call that fails because the provider raised leaves the
\* object's table as it was; one that fails on an empty result leaves the
\* empty table, on which as_list, as_json and as_dataframe raise the no-data
\* ValueError, and the table stays empty until a provider query of the
\* object returns rows; the failing step stores nothing in the cache, a
\* later get_prices of the same window whose key is not in the cache is no
\* hit, and when calls are made one at a time the key is not in the cache.
C11_FailedFetchTable ==
    [][/\ \A t \in DOMAIN th :
            C11_Fails(t) =>
               LET o == th[t].self
               IN /\ resp'.exc = "Exception"
                  /\ resp'.provider \in {"raise", "empty"}
                  /\ resp'.provider = "raise" => prices'[o] = prices[o]
                  /\ resp'.provider = "empty" =>
                        /\ empty(prices'[o])
                        /\ as_list(prices'[o]) = Raise("ValueError")
                        /\ as_dataframe(prices'[o]) = Raise("ValueError")
                        /\ \A now \in Times :
                              as_json(symbol[o], prices'[o], now)
                                 = Raise("ValueError")
                  /\ cache' = cache /\ fetched' = fetched
       /\ \A o \in 1..Len(prices) :
            (empty(prices[o]) /\ ~empty(prices'[o])) =>
               \E t \in DOMAIN th :
                  /\ th[t].pc = "history" /\ th'[t].pc = "store"
                  /\ th[t].self = o
       /\ (C11_Failed /\ Key(resp.self, resp.howmany) \notin Range(cache)) =>
            ~(/\ th' = th /\ resp' # resp /\ resp'.hit
              /\ resp'.self = resp.self /\ resp'.howmany = resp.howmany)
       /\ (C11_Failed /\ Cardinality(DOMAIN th) = 1) =>
            Key(resp.self, resp.howmany) \notin Range(cache)]_vars

\* get_prices(3) has just failed on a raising provider, after a get_prices
\* that returned on the object: the table of that call is still there and
\* renders, and window 3 is not in the cache
C11_Witness ==
    /\ C11_Failed /\ resp.provider = "raise" /\ resp.howmany = 3
    /\ ~empty(prices[resp.self])
    /\ as_list(prices[resp.self]).exc = "none"
    /\ Key(resp.self, 3) \notin Range(cache)

====
